---- MODULE Spec2Model ----
(***************************************************************************)
(* odbconnect::odbc_result (src/src/odbc_result.h): the batched,           *)
(* transactional insert of a data frame, the growable / bounded fetch of a *)
(* result cursor into a data frame, the execute-once query handle and the  *)
(* timestamp codec, as one state machine.                                  *)
(*                                                                         *)
(* The process is single threaded: pc is the position of the one caller.   *)
(* A table is loaded with insert_dataframe and then read back through a    *)
(* query handle (execute / fetch) whose result set is the loaded table.    *)
(***************************************************************************)
EXTENDS Integers, Sequences, FiniteSets, TLC

VARIABLES
    tz,          \* the process time zone: seconds east of UTC (read by localtime)
    pc,          \* position of the caller
    df,          \* the data frame handed to insert_dataframe
    types,       \* insert_dataframe: auto types = column_types(df)
    start,       \* insert_dataframe: size_t start
    size,        \* insert_dataframe: size_t size of the current batch
    col,         \* insert_dataframe: the column loop variable
    s,           \* insert_dataframe: the statement of the current batch
    strings_,    \* odbc_result::strings_
    times_,      \* odbc_result::times_
    nulls_,      \* odbc_result::nulls_
    transaction, \* nanodbc::transaction of insert_dataframe
    db,          \* rows the connection received through nanodbc::execute
    log,         \* calls made for the current batch, in order
    batches,     \* the (start, size) of every executed batch, in order
    prepared,    \* number of batch statements prepared
    commits,     \* number of transaction.commit() calls
    r_,          \* odbc_result::r_ : the result cursor
    n_max,       \* result_to_dataframe: n_max
    n,           \* result_to_dataframe: n, the capacity
    row,         \* result_to_dataframe: row
    out,         \* result_to_dataframe: out
    it,          \* the range-for iterator over r: "row" or "end"
    fetchStart,  \* cursor position when the current fetch began
    grown,       \* capacity doublings of the current fetch
    oob,         \* whether a cell write of the current fetch fell outside out
    ret,         \* the table the last fetch returned
    returned,    \* all rows returned by fetch calls, in call order
    history,     \* the execute() and fetch(n) calls made on the query handle
    executions,  \* number of s_.execute() calls
    codec        \* the value the timestamp codec is applied to

insertVars == <<df, types, start, size, col, s, strings_, times_, nulls_,
                transaction, db, log, batches, prepared, commits>>
fetchVars  == <<r_, n_max, n, row, out, it, fetchStart, grown, oob, ret,
                returned, history, executions>>
vars == <<tz, pc, insertVars, fetchVars, codec>>

(***************************************************************************)
(* Bounds of the model.                                                    *)
(***************************************************************************)
MaxBatches   == 2   \* a table holds up to MaxBatches full batches, give or take a row
MaxDoublings == 0   \* a fetched table holds up to 100 * 2^MaxDoublings rows, give or take a row
MaxK         == 2   \* largest bounded fetch size
MaxCalls     == 2   \* calls made on one query handle

(***************************************************************************)
(* Program constants.                                                      *)
(***************************************************************************)
batch_size       == 1024
seconds_in_day_  == 86400
initial_capacity == 100
NA_INTEGER       == -2147483647 - 1

(***************************************************************************)
(* Doubles are exact rationals [n, d] in lowest terms, plus NA and NaN.    *)
(***************************************************************************)
RECURSIVE Gcd(_, _)
Gcd(a, b) == IF b = 0 THEN a ELSE Gcd(b, a % b)

Abs(x) == IF x < 0 THEN -x ELSE x

Num(a, b) ==
    LET g == Gcd(Abs(a), b)
    IN  [k |-> "num", n |-> a \div g, d |-> b \div g]

NA_REAL  == [k |-> "na",  n |-> 0, d |-> 1]
R_NaN    == [k |-> "nan", n |-> 0, d |-> 1]

ISNA(x) == x.k = "na"

\* x * c and x / c for a double x and a positive integer c; NA and NaN propagate
Times(x, c)  == IF x.k = "num" THEN Num(x.n * c, x.d) ELSE x
Over(x, c)   == IF x.k = "num" THEN Num(x.n, x.d * c) ELSE x
Plus(x, y)   == Num(x.n * y.d + y.n * x.d, x.d * y.d)

\* modf: the integral part, truncated towards zero, and the signed remainder
Trunc(x) == IF x.n >= 0 THEN x.n \div x.d ELSE -((-x.n) \div x.d)
Frac(x)  == Num(x.n - Trunc(x) * x.d, x.d)

(***************************************************************************)
(* Temporal codec.                                                         *)
(***************************************************************************)
isleap(y) == (y % 4 = 0 /\ y % 100 # 0) \/ y % 400 = 0
days_in_year(y) == IF isleap(y) THEN 366 ELSE 365
days_in_month == <<31, 28, 31, 30, 31, 30, 31, 31, 30, 31, 30, 31>>

\* localtime(&t): the broken-down calendar time of t in the process time zone
localtime(t) ==
    LET loc  == t + tz
        days == loc \div 86400
        rem  == loc % 86400
        z    == days + 719468
        era  == z \div 146097
        doe  == z - era * 146097
        yoe  == (doe - doe \div 1460 + doe \div 36524 - doe \div 146096) \div 365
        doy  == doe - (365 * yoe + yoe \div 4 - yoe \div 100)
        mp   == (5 * doy + 2) \div 153
        mday == doy - (153 * mp + 2) \div 5 + 1
        mon  == IF mp < 10 THEN mp + 3 ELSE mp - 9
        year == yoe + era * 400 + (IF mon <= 2 THEN 1 ELSE 0)
    IN  [tm_sec  |-> rem % 60,
         tm_min  |-> (rem \div 60) % 60,
         tm_hour |-> rem \div 3600,
         tm_mday |-> mday,
         tm_mon  |-> mon - 1,
         tm_year |-> year - 1900]

RECURSIVE MonthDays(_)
MonthDays(m) == IF m = 0 THEN 0 ELSE days_in_month[m] + MonthDays(m - 1)

RECURSIVE YearDays(_, _)
YearDays(from, to) ==
    IF from >= to THEN 0 ELSE days_in_year(from) + YearDays(from + 1, to)

\* Rcpp::mktime00(t): seconds since the epoch of the broken-down time t, read
\* without any time zone
mktime00(t) ==
    LET year0 == 1900 + t.tm_year
        yday  == (t.tm_mday - 1) + MonthDays(t.tm_mon)
                   + (IF t.tm_mon > 1 /\ isleap(year0) THEN 1 ELSE 0)
        day   == IF year0 > 1970 THEN yday + YearDays(1970, year0)
                 ELSE IF year0 < 1970 THEN yday - YearDays(year0, 1970)
                 ELSE yday
    IN  t.tm_sec + t.tm_min * 60 + t.tm_hour * 3600 + day * 86400

\* nanodbc::timestamp as_timestamp(double value)
as_timestamp(value) ==
    LET frac == Frac(value)
        t    == Trunc(value)
        tm   == localtime(t)
    IN  [fract |-> frac,
         sec   |-> tm.tm_sec,
         min   |-> tm.tm_min,
         hour  |-> tm.tm_hour,
         day   |-> tm.tm_mday,
         month |-> tm.tm_mon + 1,
         year  |-> tm.tm_year + 1900]

\* double as_double(nanodbc::timestamp const & ts)
as_double(ts) ==
    LET t == [tm_year |-> ts.year - 1900,
              tm_mon  |-> ts.month - 1,
              tm_mday |-> ts.day,
              tm_hour |-> ts.hour,
              tm_min  |-> ts.min,
              tm_sec  |-> ts.sec]
    IN  Plus(Num(mktime00(t), 1), ts.fract)

\* nanodbc::timestamp ts;  (default constructed, nothing assigned)
blank_timestamp ==
    [fract |-> Num(0, 1), sec |-> 0, min |-> 0, hour |-> 0,
     day |-> 0, month |-> 0, year |-> 0]

(***************************************************************************)
(* The data frame of an insert: nrows rows, columns of the native kinds    *)
(* in schema, missing values where the pattern pat puts them.  Rows and    *)
(* columns are numbered from 0 as in the source.                           *)
(***************************************************************************)
Column(sxp, cls) == [sxp |-> sxp, cls |-> cls]

Schemas ==
    { << Column("INTSXP", ""), Column("REALSXP", ""), Column("STRSXP", ""),
         Column("REALSXP", "POSIXct"), Column("REALSXP", "Date") >>,
      << Column("STRSXP", ""), Column("LGLSXP", "") >>,
      << Column("RAWSXP", "") >>,
      << Column("INTSXP", ""), Column("CPLXSXP", "") >> }

NullPatterns == {"none", "mod", "edge"}

RECURSIVE Pow2(_)
Pow2(k) == IF k = 0 THEN 1 ELSE 2 * Pow2(k - 1)

Near(x) == { y \in {x - 1, x, x + 1} : y >= 0 }

RowCounts ==
    UNION { Near(b * batch_size) : b \in 0..MaxBatches }
      \cup UNION { Near(initial_capacity * Pow2(j)) : j \in 0..MaxDoublings }

IsMissing(d, c, i) ==
    CASE d.pat = "none" -> FALSE
      [] d.pat = "mod"  -> (i + c) % 3 = 0
      [] d.pat = "edge" -> i = d.nrows - 1 \/ i % batch_size = 0

NA_STRING == [k |-> "na", enc |-> "native", chars |-> 0]

\* INTEGER(data[column])[i]
INTEGER(d, c, i) == IF IsMissing(d, c, i) THEN NA_INTEGER ELSE i

\* REAL(data[column])[i]
REAL(d, c, i) ==
    IF IsMissing(d, c, i) THEN NA_REAL
    ELSE CASE d.schema[c + 1].cls = "Date"    -> Num(i - 1, 1)
           [] d.schema[c + 1].cls = "POSIXct" -> Num((i * 3600 - 7200) * 4 + 1, 4)
           [] OTHER -> IF d.pat = "mod" /\ (i + c) % 3 = 1
                       THEN R_NaN ELSE Num(2 * i + 1, 2)

\* STRING_ELT(data[column], i)
STRING_ELT(d, c, i) ==
    IF IsMissing(d, c, i) THEN NA_STRING
    ELSE [k |-> "str", enc |-> IF i % 2 = 0 THEN "latin1" ELSE "utf8", chars |-> i]

\* Rf_translateCharUTF8(x): the text of x in UTF-8; the text of NA_STRING is "NA"
Rf_translateCharUTF8(x) ==
    IF x = NA_STRING THEN [k |-> "str", enc |-> "utf8", chars |-> -1]
    ELSE [k |-> "str", enc |-> "utf8", chars |-> x.chars]

(***************************************************************************)
(* Type Mapper, outbound.                                                  *)
(***************************************************************************)
\* one case of the switch in column_types(df); "stop" is Rcpp::stop
column_type(c) ==
    CASE c.sxp = "LGLSXP"  -> "logical_t"
      [] c.sxp = "INTSXP"  -> "integer_t"
      [] c.sxp = "REALSXP" -> IF c.cls = "Date" THEN "date_t"
                              ELSE IF c.cls = "POSIXct" THEN "datetime_t"
                              ELSE "double_t"
      [] c.sxp = "STRSXP"  -> "string_t"
      [] c.sxp = "RAWSXP"  -> "raw_t"
      [] OTHER             -> "stop"

\* std::vector<r_type> column_types(Rcpp::DataFrame const & df)
column_types_df(d) == [c \in 1..Len(d.schema) |-> column_type(d.schema[c])]

\* whether the switch of insert_dataframe has a bind for the type
HasBinding(t) == t \in {"integer_t", "double_t", "string_t", "datetime_t", "date_t"}

(***************************************************************************)
(* Batch Binder.  The three buffer maps are functions from the column      *)
(* number to a sequence; the empty map is the empty function.              *)
(***************************************************************************)
Buffers(strs, tms, nls) == [strings |-> strs, times |-> tms, nulls |-> nls]

EmptyMap == << >>

Get(m, c) == IF c \in DOMAIN m THEN m[c] ELSE << >>
Put(m, c, v) == (c :> v) @@ m

\* a bound parameter column: the values, and how a missing one is told
Sentinel(vals)    == [mode |-> "sentinel", vals |-> vals, nulls |-> << >>]
Masked(vals, nls) == [mode |-> "mask", vals |-> vals, nulls |-> nls]

\* clear_buffers, were only nulls_ cleared
clear_buffers_nulls_only(b) == Buffers(b.strings, b.times, EmptyMap)

\* void clear_buffers()
clear_buffers(b) == Buffers(EmptyMap, EmptyMap, EmptyMap)

\* bind_integer: points at the column's own storage, NA_INTEGER is the sentinel
bind_integer(d, column, st, sz, b) ==
    [buf   |-> b,
     bound |-> Sentinel([i \in 1..sz |-> INTEGER(d, column, st + i - 1)])]

\* bind_double, were the mask read from vector[i] instead of vector[start + i]
bind_double_unshifted(d, column, st, sz, b) ==
    LET mask == [i \in 1..sz |-> ISNA(REAL(d, column, i - 1))]
    IN  [buf   |-> Buffers(b.strings, b.times, Put(b.nulls, column, mask)),
         bound |-> Masked([i \in 1..sz |-> REAL(d, column, st + i - 1)], mask)]

\* bind_double: a fresh mask of size entries, set where the value is NA
bind_double(d, column, st, sz, b) ==
    LET mask == [i \in 1..sz |-> ISNA(REAL(d, column, st + i - 1))]
    IN  [buf   |-> Buffers(b.strings, b.times, Put(b.nulls, column, mask)),
         bound |-> Masked([i \in 1..sz |-> REAL(d, column, st + i - 1)], mask)]

\* bind_string: a fresh mask, and one string pushed per row
bind_string(d, column, st, sz, b) ==
    LET mask == [i \in 1..sz |-> STRING_ELT(d, column, st + i - 1) = NA_STRING]
        strs == Get(b.strings, column) \o
                [i \in 1..sz |-> Rf_translateCharUTF8(STRING_ELT(d, column, st + i - 1))]
    IN  [buf   |-> Buffers(Put(b.strings, column, strs), b.times,
                           Put(b.nulls, column, mask)),
         bound |-> Masked(strs, mask)]

\* the loop body shared by bind_datetime and bind_date
timestamp_of(value) == IF ISNA(value) THEN blank_timestamp ELSE as_timestamp(value)

\* bind_datetime: a fresh mask, one timestamp pushed per row; the statement is
\* given times_[column].data() and size
bind_datetime(d, column, st, sz, b) ==
    LET mask == [i \in 1..sz |-> ISNA(REAL(d, column, st + i - 1))]
        tms  == Get(b.times, column) \o
                [i \in 1..sz |-> timestamp_of(REAL(d, column, st + i - 1))]
    IN  [buf   |-> Buffers(b.strings, Put(b.times, column, tms),
                           Put(b.nulls, column, mask)),
         bound |-> Masked(SubSeq(tms, 1, sz), mask)]

\* bind_date: as bind_datetime, on the day count times seconds_in_day_
bind_date(d, column, st, sz, b) ==
    LET value(i) == Times(REAL(d, column, st + i - 1), seconds_in_day_)
        mask == [i \in 1..sz |-> ISNA(value(i))]
        tms  == Get(b.times, column) \o [i \in 1..sz |-> timestamp_of(value(i))]
    IN  [buf   |-> Buffers(b.strings, Put(b.times, column, tms),
                           Put(b.nulls, column, mask)),
         bound |-> Masked(SubSeq(tms, 1, sz), mask)]

\* the switch of insert_dataframe for a type that has a bind
bind_column(t, d, column, st, sz, b) ==
    CASE t = "integer_t"  -> bind_integer(d, column, st, sz, b)
      [] t = "double_t"   -> bind_double(d, column, st, sz, b)
      [] t = "string_t"   -> bind_string(d, column, st, sz, b)
      [] t = "datetime_t" -> bind_datetime(d, column, st, sz, b)
      [] t = "date_t"     -> bind_date(d, column, st, sz, b)

\* batch_end without the clamp to nrows
batch_end_unclamped(st, nrows) == st + batch_size

\* size_t end = start + batch_size > nrows ? nrows : start + batch_size
batch_end(st, nrows) == IF st + batch_size > nrows THEN nrows ELSE st + batch_size

\* what the connection receives for row i of a bound column
Param(b, i) ==
    [null |-> IF b.mode = "sentinel" THEN b.vals[i] = NA_INTEGER ELSE b.nulls[i],
     v    |-> b.vals[i]]

\* nanodbc::execute(s, size): the rows of the batch, column by column
execute_rows(stmt, sz) ==
    [i \in 1..sz |-> [c \in 1..Len(stmt) |-> Param(stmt[c], i)]]

(***************************************************************************)
(* Type Mapper, inbound, and the output table.                             *)
(***************************************************************************)
\* r.column_datatype(i) for the table the insert loaded: the SQL type of the
\* column that holds a bound column of type t
column_datatype(t) ==
    CASE t = "integer_t"  -> "SQL_INTEGER"
      [] t = "double_t"   -> "SQL_DOUBLE"
      [] t = "string_t"   -> "SQL_VARCHAR"
      [] t = "datetime_t" -> "SQL_TYPE_TIMESTAMP"
      [] t = "date_t"     -> "SQL_TYPE_DATE"
      [] t = "logical_t"  -> "SQL_BIT"
      [] t = "raw_t"      -> "SQL_VARBINARY"

\* one case of the switch in column_types(result)
result_type(sql) ==
    CASE sql \in {"SQL_BIT", "SQL_TINYINT", "SQL_SMALLINT", "SQL_INTEGER",
                  "SQL_BIGINT"} -> "integer_t"
      [] sql \in {"SQL_DOUBLE", "SQL_FLOAT", "SQL_DECIMAL", "SQL_REAL",
                  "SQL_NUMERIC"} -> "double_t"
      [] sql \in {"SQL_DATE", "SQL_TYPE_DATE"} -> "date_t"
      [] sql \in {"SQL_TIME", "SQL_TIMESTAMP", "SQL_TYPE_TIMESTAMP",
                  "SQL_TYPE_TIME"} -> "datetime_t"
      [] sql \in {"SQL_CHAR", "SQL_WCHAR", "SQL_VARCHAR", "SQL_WVARCHAR",
                  "SQL_LONGVARCHAR", "SQL_WLONGVARCHAR"} -> "string_t"
      [] sql \in {"SQL_BINARY", "SQL_VARBINARY", "SQL_LONGVARBINARY"} -> "raw_t"
      [] OTHER -> "string_t"

\* std::vector<r_type> column_types(nanodbc::result const & r)
column_types_result(sqls) == [c \in 1..Len(sqls) |-> result_type(sqls[c])]

R_NilValue   == [k |-> "NULL"]
R_BlankString == [k |-> "str", enc |-> "native", chars |-> -2]
Garbage      == [k |-> "garbage", n |-> 0, d |-> 1]

\* a cell of Rf_allocVector: numeric vectors are not initialised
alloc_cell(t) ==
    CASE t = "integer_t" -> 0
      [] t \in {"date_t", "datetime_t", "double_t"} -> Garbage
      [] t = "string_t"  -> R_BlankString
      [] t = "raw_t"     -> R_NilValue
      [] t = "logical_t" -> 0

\* a cell Rf_lengthgets appends when it lengthens a vector
pad_cell(t) ==
    CASE t = "integer_t" -> NA_INTEGER
      [] t \in {"date_t", "datetime_t", "double_t"} -> NA_REAL
      [] t = "string_t"  -> NA_STRING
      [] t = "raw_t"     -> R_NilValue
      [] t = "logical_t" -> NA_INTEGER

\* Rcpp::List create_dataframe(types, names, n)
create_dataframe(ts, cap) ==
    [cols  |-> [c \in 1..Len(ts) |-> [i \in 1..cap |-> alloc_cell(ts[c])]],
     nrow  |-> cap,
     class |-> [c \in 1..Len(ts) |-> ""]]

\* Rf_lengthgets(v, n)
Rf_lengthgets(v, t, len) ==
    [i \in 1..len |-> IF i <= Len(v) THEN v[i] ELSE pad_cell(t)]

\* Rcpp::List resize_dataframe(Rcpp::List df, int n)
resize_dataframe(o, ts, len) ==
    [cols  |-> [c \in 1..Len(o.cols) |-> Rf_lengthgets(o.cols[c], ts[c], len)],
     nrow  |-> len,
     class |-> o.class]

\* void add_classes(Rcpp::List& df, const std::vector<r_type> & types)
add_classes(o, ts) ==
    [o EXCEPT !.class = [c \in 1..Len(ts) |->
        CASE ts[c] = "date_t"     -> "Date"
          [] ts[c] = "datetime_t" -> "POSIXct"
          [] OTHER                -> o.class[c]]]

\* Rf_mkCharCE(str.c_str(), CE_UTF8)
Rf_mkCharCE(str) == [k |-> "str", enc |-> "utf8", chars |-> str.chars]

\* the value the switch of result_to_dataframe writes for cursor cell v
cell_value(t, v) ==
    CASE t = "integer_t" -> IF v.null THEN NA_INTEGER ELSE v.v
      [] t = "datetime_t" -> IF v.null THEN NA_REAL ELSE as_double(v.v)
      [] t = "date_t" ->
            Over(IF v.null THEN NA_REAL ELSE as_double(v.v), seconds_in_day_)
      [] t = "double_t" -> IF v.null THEN NA_REAL ELSE v.v
      [] t = "string_t" -> IF v.null THEN NA_STRING ELSE Rf_mkCharCE(v.v)

\* whether the switch of result_to_dataframe writes a cell for the type
Writes(t) == t \in {"integer_t", "datetime_t", "date_t", "double_t", "string_t"}

\* the column loop of result_to_dataframe: cursor row vals into row rw of o
write_row(o, ts, vals, rw) ==
    [o EXCEPT !.cols = [c \in 1..Len(ts) |->
        IF Writes(ts[c]) /\ rw < Len(o.cols[c])
        THEN [o.cols[c] EXCEPT ![rw + 1] = cell_value(ts[c], vals[c])]
        ELSE o.cols[c]]]

\* if (row >= n): the capacity test at the top of the loop body
at_capacity(rw, cap) == rw >= cap

\* needs_shrink with the comparison turned round
needs_shrink_reversed(rw, cap) == rw > cap

\* if (row < n): the test of the final resize
needs_shrink(rw, cap) == rw < cap

\* first_capacity, were n_max ignored
first_capacity_default(nm) == initial_capacity

\* int n = (n_max < 0) ? 100 : n_max
first_capacity(nm) == IF nm < 0 THEN initial_capacity ELSE nm

\* the result cursor: pos rows have been advanced onto; eof once next() failed
NoResult == [valid |-> FALSE, pos |-> 0, eof |-> FALSE]

\* r.next(): advance onto the next row if there is one
next(r, total) ==
    IF r.pos < total THEN [r EXCEPT !.pos = r.pos + 1] ELSE [r EXCEPT !.eof = TRUE]

\* execute without the if (!r_) guard
execute_again(h) ==
    [r |-> [valid |-> TRUE, pos |-> 0, eof |-> FALSE], executions |-> h.executions + 1]

\* void execute(): h is the handle's cursor and the statement's execution count
execute(h) ==
    IF ~h.r.valid
    THEN [r |-> [valid |-> TRUE, pos |-> 0, eof |-> FALSE], executions |-> h.executions + 1]
    ELSE h

(***************************************************************************)
(* Initial states.                                                         *)
(***************************************************************************)
\* time zones of the process: the codec is run in each of TimeZones, a load
\* and its fetches in one of HomeZones
TimeZones == {-18000, 0, 3600}
HomeZones == {-18000}
FetchSizes == {-1} \cup 0..MaxK

IdleCodec ==
    [phase |-> "idle", kind |-> "", value |-> NA_REAL,
     ts |-> blank_timestamp, back |-> NA_REAL]

EmptyTable == [cols |-> << >>, nrow |-> 0, class |-> << >>]

InitInsert ==
    /\ types = << >>
    /\ start = 0
    /\ size = 0
    /\ col = 0
    /\ s = << >>
    /\ strings_ = EmptyMap
    /\ times_ = EmptyMap
    /\ nulls_ = EmptyMap
    /\ transaction = "none"
    /\ db = << >>
    /\ log = << >>
    /\ batches = << >>
    /\ prepared = 0
    /\ commits = 0

InitFetch ==
    /\ r_ = NoResult
    /\ n_max = 0
    /\ n = 0
    /\ row = 0
    /\ out = EmptyTable
    /\ it = "end"
    /\ fetchStart = 0
    /\ grown = 0
    /\ oob = FALSE
    /\ ret = EmptyTable
    /\ returned = << >>
    /\ history = << >>
    /\ executions = 0

Init ==
    /\ tz \in HomeZones
    /\ pc = "idle"
    /\ df \in [nrows : RowCounts, schema : Schemas, pat : NullPatterns]
    /\ InitInsert
    /\ InitFetch
    /\ codec = IdleCodec

(***************************************************************************)
(* insert_dataframe, statement by statement.                               *)
(***************************************************************************)
\* Throw, were the transaction committed when the scope is left by an exception
Throw_commits ==
    /\ pc' = "failed"
    /\ transaction' = IF transaction = "open" THEN "committed" ELSE transaction

\* an exception leaves insert_dataframe: the transaction is never committed
Throw ==
    /\ pc' = "failed"
    /\ transaction' = IF transaction = "open" THEN "aborted" ELSE transaction

\* lines 33-38: infer the column types, then open the transaction; either
\* may throw
InsertBegin ==
    /\ pc = "idle"
    /\ LET ts == column_types_df(df)
       IN  IF \E c \in 1..Len(ts) : ts[c] = "stop"
           THEN /\ Throw
                /\ UNCHANGED <<types, start>>
           ELSE \E ok \in BOOLEAN :
                  IF ok
                  THEN /\ types' = ts
                       /\ start' = 0
                       /\ transaction' = "open"
                       /\ pc' = "loop"
                  ELSE /\ Throw
                       /\ UNCHANGED <<types, start>>
    /\ UNCHANGED <<tz, df, size, col, s, strings_, times_, nulls_, db, log,
                   batches, prepared, commits, fetchVars, codec>>

\* lines 40-43: the loop test, the statement of the batch and its size
Prepare ==
    /\ pc = "loop"
    /\ start < df.nrows
    /\ \E ok \in BOOLEAN :
         IF ok
         THEN /\ s' = << >>
              /\ size' = batch_end(start, df.nrows) - start
              /\ log' = <<"prepare">>
              /\ prepared' = prepared + 1
              /\ pc' = "clear"
              /\ UNCHANGED transaction
         ELSE /\ Throw
              /\ UNCHANGED <<s, size, log, prepared>>
    /\ UNCHANGED <<tz, df, types, start, col, strings_, times_, nulls_, db,
                   batches, commits, fetchVars, codec>>

\* line 44: clear_buffers()
ClearBuffers ==
    /\ pc = "clear"
    /\ LET b == clear_buffers(Buffers(strings_, times_, nulls_))
       IN  /\ strings_' = b.strings
           /\ times_' = b.times
           /\ nulls_' = b.nulls
    /\ col' = 0
    /\ log' = Append(log, "clear")
    /\ pc' = "bind"
    /\ UNCHANGED <<tz, df, types, start, size, s, transaction, db, batches,
                   prepared, commits, fetchVars, codec>>

\* lines 46-55: one turn of the column loop
BindColumn ==
    /\ pc = "bind"
    /\ col < Len(types)
    /\ IF ~HasBinding(types[col + 1])
       THEN /\ Throw
            /\ UNCHANGED <<col, s, strings_, times_, nulls_, log>>
       ELSE LET b == bind_column(types[col + 1], df, col, start, size,
                                 Buffers(strings_, times_, nulls_))
            IN  /\ strings_' = b.buf.strings
                /\ times_' = b.buf.times
                /\ nulls_' = b.buf.nulls
                /\ \E ok \in BOOLEAN :
                     IF ok
                     THEN /\ s' = Append(s, b.bound)
                          /\ col' = col + 1
                          /\ log' = Append(log, "bind")
                          /\ UNCHANGED <<pc, transaction>>
                     ELSE /\ Throw
                          /\ UNCHANGED <<col, s, log>>
    /\ UNCHANGED <<tz, df, types, start, size, db, batches, prepared,
                   commits, fetchVars, codec>>

\* lines 56-58: nanodbc::execute(s, size); start += batch_size; the statement
\* s of the batch ends with the loop body
ExecuteBatch ==
    /\ pc = "bind"
    /\ col = Len(types)
    /\ \E ok \in BOOLEAN :
         IF ok
         THEN /\ db' = db \o execute_rows(s, size)
              /\ batches' = Append(batches, [start |-> start, size |-> size])
              /\ log' = Append(log, "execute")
              /\ start' = start + batch_size
              /\ s' = << >>
              /\ pc' = "loop"
              /\ UNCHANGED transaction
         ELSE /\ Throw
              /\ UNCHANGED <<db, batches, log, start, s>>
    /\ UNCHANGED <<tz, df, types, size, col, strings_, times_, nulls_,
                   prepared, commits, fetchVars, codec>>

\* line 59: transaction.commit(), which may itself throw
Commit ==
    /\ pc = "loop"
    /\ ~(start < df.nrows)
    /\ commits' = commits + 1
    /\ \E ok \in BOOLEAN :
         IF ok
         THEN /\ transaction' = "committed"
              /\ pc' = "done"
         ELSE /\ transaction' = "aborted"
              /\ pc' = "commit failed"
    /\ UNCHANGED <<tz, df, types, start, size, col, s, strings_, times_,
                   nulls_, db, log, batches, prepared, fetchVars, codec>>

(***************************************************************************)
(* The query handle.  Its statement selects the loaded table, so the       *)
(* result set is db and its column types are those of the loaded columns.  *)
(***************************************************************************)
ResultColumns == [c \in 1..Len(types) |-> column_datatype(types[c])]
ResultTypes   == column_types_result(ResultColumns)

\* result sets longer than this are not fetched
MaxCursorRows == initial_capacity * Pow2(MaxDoublings) + 1

\* lines 13-17: odbc_result(c, sql) for a query that selects the loaded
\* table: a new handle, whose buffers are empty and whose cursor is not set
NewQuery ==
    /\ pc = "done"
    /\ Len(db) <= MaxCursorRows
    /\ strings_' = EmptyMap
    /\ times_' = EmptyMap
    /\ nulls_' = EmptyMap
    /\ r_' = NoResult
    /\ pc' = "ready"
    /\ UNCHANGED <<tz, df, types, start, size, col, s, transaction, db, log,
                   batches, prepared, commits, n_max, n, row, out, it,
                   fetchStart, grown, oob, ret, returned, history, executions,
                   codec>>

CanQuery ==
    /\ pc = "ready"
    /\ Len(history) < MaxCalls

\* the row of table o at index j (from 1), across its columns
TableRow(o, j) == [c \in 1..Len(o.cols) |-> o.cols[c][j]]
TableRows(o) == [j \in 1..o.nrow |-> TableRow(o, j)]

\* lines 27-31: a call of execute()
Execute ==
    /\ CanQuery
    /\ LET h == execute([r |-> r_, executions |-> executions])
       IN  /\ r_' = h.r
           /\ executions' = h.executions
    /\ history' = Append(history, [op |-> "execute", n |-> 0])
    /\ UNCHANGED <<tz, pc, insertVars, n_max, n, row, out, it, fetchStart,
                   grown, oob, ret, returned, codec>>

\* lines 61-63 and 326-332: fetch(nm) up to the first turn of the loop:
\* execute(), the capacity, the empty table, and the iterator's first advance
FetchBegin(nm) ==
    /\ CanQuery
    /\ LET h  == execute([r |-> r_, executions |-> executions])
           r1 == next(h.r, Len(db))
       IN  /\ executions' = h.executions
           /\ fetchStart' = h.r.pos
           /\ r_' = r1
           /\ it' = IF r1.eof THEN "end" ELSE "row"
    /\ history' = Append(history, [op |-> "fetch", n |-> nm])
    /\ n_max' = nm
    /\ n' = first_capacity(nm)
    /\ out' = create_dataframe(ResultTypes, first_capacity(nm))
    /\ row' = 0
    /\ grown' = 0
    /\ oob' = FALSE
    /\ pc' = "fetching"
    /\ UNCHANGED <<tz, insertVars, ret, returned, codec>>

\* lines 333-387: one turn of the loop on the row the cursor is on, then the
\* iterator's advance
FetchRow ==
    /\ pc = "fetching"
    /\ it = "row"
    /\ IF at_capacity(row, n) /\ ~(n_max < 0)
       THEN /\ it' = "end"
            /\ UNCHANGED <<r_, n, row, out, grown, oob>>
       ELSE LET grow == at_capacity(row, n)
                cap  == IF grow THEN n * 2 ELSE n
                o    == IF grow THEN resize_dataframe(out, ResultTypes, cap) ELSE out
                r1   == next(r_, Len(db))
            IN  /\ n' = cap
                /\ grown' = IF grow THEN grown + 1 ELSE grown
                /\ oob' = (oob \/ ~(row < cap))
                /\ out' = write_row(o, ResultTypes, db[r_.pos], row)
                /\ row' = row + 1
                /\ r_' = r1
                /\ it' = IF r1.eof THEN "end" ELSE "row"
    /\ UNCHANGED <<tz, pc, insertVars, n_max, fetchStart, ret, returned,
                   history, executions, codec>>

\* lines 390-396: the final resize, the classes, the return
FetchReturn ==
    /\ pc = "fetching"
    /\ it = "end"
    /\ LET o == IF needs_shrink(row, n)
                THEN resize_dataframe(out, ResultTypes, row) ELSE out
           t == add_classes(o, ResultTypes)
       IN  /\ out' = t
           /\ ret' = t
           /\ returned' = returned \o TableRows(t)
    /\ pc' = "ready"
    /\ UNCHANGED <<tz, insertVars, r_, n_max, n, row, it, fetchStart, grown,
                   oob, history, executions, codec>>

Next ==
    \/ InsertBegin
    \/ Prepare
    \/ ClearBuffers
    \/ BindColumn
    \/ ExecuteBatch
    \/ Commit
    \/ NewQuery
    \/ Execute
    \/ \E nm \in FetchSizes : FetchBegin(nm)
    \/ FetchRow
    \/ FetchReturn

Spec == Init /\ [][Next]_vars

(***************************************************************************)
(* The codec on its own: a Date or DateTime value out to a timestamp and   *)
(* back, in each time zone.                                                *)
(***************************************************************************)
CodecSpan == 3

CodecDates == { Num(dd, 1) : dd \in ((-CodecSpan)..CodecSpan) \cup {59, 60, 365, 18262} }

CodecDateTimes ==
    { Num(sec * 4 + q, 4) :
        sec \in ((-CodecSpan)..CodecSpan) \cup {3599, 86399, 86400, 500000000},
        q \in 1..3 }

InitCodec ==
    /\ tz \in TimeZones
    /\ pc = "codec"
    /\ df = [nrows |-> 0, schema |-> << >>, pat |-> "none"]
    /\ InitInsert
    /\ InitFetch
    /\ \E kind \in {"date_t", "datetime_t"} :
         \E v \in (IF kind = "date_t" THEN CodecDates ELSE CodecDateTimes) :
            codec = [IdleCodec EXCEPT !.phase = "value", !.kind = kind, !.value = v]

\* outbound: bind_date / bind_datetime on a value that is not NA
CodecOut ==
    /\ codec.phase = "value"
    /\ codec' = [codec EXCEPT
                   !.phase = "timestamp",
                   !.ts = timestamp_of(IF codec.kind = "date_t"
                                       THEN Times(codec.value, seconds_in_day_)
                                       ELSE codec.value)]
    /\ UNCHANGED <<tz, pc, insertVars, fetchVars>>

\* inbound: the date_t / datetime_t case of result_to_dataframe
CodecIn ==
    /\ codec.phase = "timestamp"
    /\ codec' = [codec EXCEPT
                   !.phase = "double",
                   !.back = cell_value(codec.kind, [null |-> FALSE, v |-> codec.ts])]
    /\ UNCHANGED <<tz, pc, insertVars, fetchVars>>

NextCodec == CodecOut \/ CodecIn

SpecCodec == InitCodec /\ [][NextCodec]_vars

(***************************************************************************)
(* Properties.                                                             *)
(***************************************************************************)
CeilDiv(a, b) == (a + b - 1) \div b
Min(a, b) == IF a < b THEN a ELSE b

RECURSIVE SumSizes(_)
SumSizes(bs) == IF bs = << >> THEN 0 ELSE bs[1].size + SumSizes(Tail(bs))

NCols == Len(df.schema)

\* whether row i of column c of the inserted table is null
TableNull(c, i) ==
    CASE types[c + 1] = "integer_t" -> INTEGER(df, c, i) = NA_INTEGER
      [] types[c + 1] = "string_t"  -> STRING_ELT(df, c, i) = NA_STRING
      [] OTHER                      -> ISNA(REAL(df, c, i))

\* whether a fetched cell of type t holds the null of its type
CellNull(t, x) ==
    CASE t = "integer_t" -> x = NA_INTEGER
      [] t = "string_t"  -> x = NA_STRING
      [] OTHER           -> x = NA_REAL

\* the state in which nanodbc::execute is about to be called for a batch
AtExecute == pc = "bind" /\ col = Len(types)

\* the state after a fetch has returned
AfterFetch ==
    /\ pc = "ready"
    /\ history # << >>
    /\ history[Len(history)].op = "fetch"

\* rows the cursor had not been advanced onto when the last fetch began
Held == Len(db) - fetchStart

\* what a fetch must write for the cursor's j-th row
CursorRow(j) == [c \in 1..Len(types) |-> cell_value(ResultTypes[c], db[j][c])]

\* C1: commit is called at most once, only when every batch has been executed,
\* and never in a run in which a prepare, bind or execute step failed, however
\* many batches were executed before the failure.
InsertAtomicity ==
    /\ commits <= 1
    /\ transaction = "committed" => commits = 1
    /\ commits = 1 =>
         /\ SumSizes(batches) = df.nrows
         /\ Len(db) = df.nrows
         /\ Len(batches) = CeilDiv(df.nrows, batch_size)
         /\ pc # "failed"
    /\ pc = "failed" => commits = 0 /\ transaction \in {"none", "aborted"}

\* a later batch failed after an earlier batch had been executed
InsertAtomicityWitness ==
    /\ pc = "failed"
    /\ Len(batches) >= 1
    /\ transaction = "aborted"

\* C2: the executed batches are rows 0..N-1 in order, 1024 at a time, only the
\* last one shorter; a committed insert prepared and executed ceil(N/1024)
\* of them; a table of no rows goes straight to the commit.
BatchPartitioning ==
    /\ pc = "done" => commits = 1
    /\ \A i \in 1..Len(batches) :
         /\ batches[i].start = (i - 1) * batch_size
         /\ batches[i].size = Min(batch_size, df.nrows - batches[i].start)
         /\ batches[i].size >= 1
         /\ i < Len(batches) => batches[i].size = batch_size
    /\ Len(db) = SumSizes(batches)
    /\ commits = 1 =>
         /\ Len(batches) = CeilDiv(df.nrows, batch_size)
         /\ prepared = Len(batches)
         /\ SumSizes(batches) = df.nrows
    /\ (pc = "loop" /\ df.nrows = 0) => (batches = << >> /\ prepared = 0 /\ ENABLED Commit)

\* 1025 rows were committed in two batches
BatchPartitioningWitness ==
    /\ commits = 1
    /\ df.nrows = batch_size + 1
    /\ Len(batches) = 2
    /\ batches[2].size = 1

\* C3: a fetch(k), k >= 0, on a cursor holding more than k rows returns
\* the k rows that follow the cursor's position, in order, and its capacity is
\* k throughout.
BoundedFetch ==
    /\ (pc = "fetching" /\ n_max >= 0) =>
         /\ n = n_max
         /\ grown = 0
         /\ out.nrow = n_max
    /\ (AfterFetch /\ n_max >= 0 /\ Held > n_max) =>
         /\ ret.nrow = n_max
         /\ \A c \in 1..Len(ret.cols) : Len(ret.cols[c]) = n_max
         /\ TableRows(ret) = [j \in 1..n_max |-> CursorRow(fetchStart + j)]
         /\ grown = 0

\* fetch(2) returned two rows of a cursor that held more
BoundedFetchWitness ==
    /\ AfterFetch
    /\ n_max = 2
    /\ Held > 2
    /\ ret.nrow = 2
    /\ NCols = 5

\* C4: during a fetch(-1) the capacity is 100 doubled once per growth and no
\* cell is written at or beyond it; the table returned holds exactly the rows
\* the cursor held, in order, shrunk to their number, and grew at least once
\* if there were more than 100.
GrowableFetch ==
    /\ ~oob
    /\ (pc = "fetching" /\ n_max < 0) =>
         /\ n = initial_capacity * Pow2(grown)
         /\ row <= n
         /\ out.nrow = n
         /\ \A c \in 1..Len(out.cols) : Len(out.cols[c]) = n
    /\ (AfterFetch /\ n_max < 0) =>
         /\ ret.nrow = Held
         /\ \A c \in 1..Len(ret.cols) : Len(ret.cols[c]) = Held
         /\ TableRows(ret) = [j \in 1..Held |-> CursorRow(fetchStart + j)]
         /\ Held > initial_capacity => grown >= 1
         /\ n = initial_capacity * Pow2(grown)

\* fetch(-1) returned 101 rows after one doubling
GrowableFetchWitness ==
    /\ AfterFetch
    /\ n_max < 0
    /\ grown = 1
    /\ ret.nrow = initial_capacity + 1
    /\ NCols = 5

\* C5: the statement is executed once, by the first execute() or fetch(n)
\* call; a later execute() leaves the cursor as it is; a fetch reads the
\* cursor only once it is set.
ExecuteOnce ==
    /\ [](/\ executions = (IF history = << >> THEN 0 ELSE 1)
          /\ r_.valid = (history # << >>)
          /\ pc = "fetching" => r_.valid)
    /\ [][(pc = "ready" /\ pc' = "ready" /\ history' # history /\ r_.valid)
            => (r_' = r_ /\ executions' = executions)]_vars

\* execute() was called after a fetch had moved the cursor
ExecuteOnceWitness ==
    /\ pc = "ready"
    /\ Len(history) = 2
    /\ history[1].op = "fetch"
    /\ history[2].op = "execute"
    /\ executions = 1
    /\ r_.pos > 0

\* C6: a table with a column that has no outbound binding is never committed
\* and none of its batches is executed, whatever its row count.
UnsupportedTypeRejected ==
    (\E c \in 1..NCols : ~HasBinding(column_type(df.schema[c]))) =>
        /\ commits = 0
        /\ transaction # "committed"
        /\ batches = << >>

\* C7: the null flag of every bound parameter and of every row received by
\* the connection is that of its table row, and a fetched cell holds the null
\* of its type exactly when the cursor's cell is null, which is exactly when
\* the table row it came from is null.
NullPreservation ==
    /\ AtExecute =>
         \A c \in 0..(NCols - 1) : \A i \in 1..size :
            Param(s[c + 1], i).null = TableNull(c, start + i - 1)
    /\ pc = "loop" =>
         \A j \in 1..Len(db) : \A c \in 0..(NCols - 1) :
            db[j][c + 1].null = TableNull(c, j - 1)
    /\ AfterFetch =>
         \A c \in 1..Len(ret.cols) : \A j \in 1..Len(ret.cols[c]) :
            /\ CellNull(ResultTypes[c], ret.cols[c][j]) = db[fetchStart + j][c].null
            /\ CellNull(ResultTypes[c], ret.cols[c][j]) = TableNull(c - 1, fetchStart + j - 1)

\* a whole table of every type was fetched back: its first row null, its second not
NullPreservationWitness ==
    /\ AfterFetch
    /\ fetchStart = 0
    /\ n_max < 0
    /\ NCols = 5
    /\ ret.nrow >= 2
    /\ \A c \in 1..5 :
         /\ CellNull(ResultTypes[c], ret.cols[c][1])
         /\ ~CellNull(ResultTypes[c], ret.cols[c][2])

\* C8: a Date or DateTime value taken out to a timestamp and back in is the
\* value it was, in every time zone.
TemporalRoundTrip == codec.phase = "double" => codec.back = codec.value

\* C9: when a batch is executed, the mask of every masked column and the
\* value buffer of every String, Date and DateTime column hold one element per
\* row of the batch, element i built from table row start + i, no other column
\* has a buffer, and the calls of the batch were prepare, clear, one bind per
\* column; the execute follows once.
BufferIsolation ==
    /\ AtExecute =>
         /\ log = <<"prepare", "clear">> \o [c \in 1..NCols |-> "bind"]
         /\ Len(s) = NCols
         /\ DOMAIN nulls_ = {c \in 0..(NCols - 1) : types[c + 1] # "integer_t"}
         /\ DOMAIN strings_ = {c \in 0..(NCols - 1) : types[c + 1] = "string_t"}
         /\ DOMAIN times_ =
              {c \in 0..(NCols - 1) : types[c + 1] \in {"date_t", "datetime_t"}}
         /\ \A c \in DOMAIN nulls_ :
              /\ Len(nulls_[c]) = size
              /\ \A i \in 1..size : nulls_[c][i] = TableNull(c, start + i - 1)
         /\ \A c \in DOMAIN strings_ :
              /\ Len(strings_[c]) = size
              /\ \A i \in 1..size :
                   strings_[c][i] = Rf_translateCharUTF8(STRING_ELT(df, c, start + i - 1))
         /\ \A c \in DOMAIN times_ :
              /\ Len(times_[c]) = size
              /\ \A i \in 1..size :
                   times_[c][i] =
                     timestamp_of(IF types[c + 1] = "date_t"
                                  THEN Times(REAL(df, c, start + i - 1), seconds_in_day_)
                                  ELSE REAL(df, c, start + i - 1))
    /\ (pc = "loop" /\ batches # << >>) =>
         log = <<"prepare", "clear">> \o [c \in 1..NCols |-> "bind"] \o <<"execute">>
    /\ pc \in {"loop", "done"} => prepared = Len(batches)

\* the second batch of a table of every type is about to be executed
BufferIsolationWitness ==
    /\ AtExecute
    /\ start = batch_size
    /\ NCols = 5
    /\ size = batch_size
    /\ df.pat = "edge"

\* C10: the rows returned by bounded fetches, put end to end, are the first
\* rows of the result set in order.
NoRowLost ==
    (\A i \in 1..Len(history) : history[i].op = "fetch" => history[i].n >= 0) =>
        \A j \in 1..Len(returned) : returned[j] = CursorRow(j)

====
